---- MODULE Spec2Model ----
(***************************************************************************)
(* Model of rope/base/serializer.py: python_to_json / json_to_python and   *)
(* the two recursive transforms _py2js / _js2py.                           *)
(*                                                                         *)
(* Python objects are tagged records.  A str is the sequence of its        *)
(* characters, so that str.isdigit(), str(int) and int(str) are computed   *)
(* and not assumed.  A dict is the sequence of its (key, value) pairs in   *)
(* insertion order, with keys unique under ==.                             *)
(***************************************************************************)
EXTENDS Integers, Sequences, FiniteSets, TLC

VARIABLES x, version, pc, env, wire, out, hist, emits

vars == <<x, version, pc, env, wire, out, hist, emits>>

----------------------------------------------------------------------------
(* Python objects *)

NoneV == [t |-> "none"]
IntV(n) == [t |-> "int", n |-> n]
StrV(s) == [t |-> "str", s |-> s]
ListV(items) == [t |-> "list", items |-> items]
TupleV(items) == [t |-> "tuple", items |-> items]
DictV(pairs) == [t |-> "dict", pairs |-> pairs]

(* A raised exception, propagated by every caller; kind is the exception *)
(* class and the source line that raises it.                             *)
Err(kind) == [t |-> "error", kind |-> kind]
IsErr(r) == r.t = "error"

(* The string literals of the source. *)
DOLLAR == StrV(<<"$">>)
TMARK == StrV(<<"t">>)
ITEMS == StrV(<<"i", "t", "e", "m", "s">>)
KEYV == StrV(<<"v">>)
KEYDATA == StrV(<<"d", "a", "t", "a">>)
KEYREFS == StrV(<<"r", "e", "f", "e", "r", "e", "n", "c", "e", "s">>)

----------------------------------------------------------------------------
(* Builtins used by the source *)

DigitChars == <<"0", "1", "2", "3", "4", "5", "6", "7", "8", "9">>
Digits == {DigitChars[i] : i \in 1..Len(DigitChars)}

(* str.isdigit(): non-empty and every character a digit *)
isdigit(s) == Len(s) > 0 /\ \A i \in 1..Len(s) : s[i] \in Digits

(* str(n) for n >= 0 *)
RECURSIVE str(_)
str(n) ==
  IF n < Len(DigitChars) THEN <<DigitChars[n + 1]>>
  ELSE str(n \div Len(DigitChars)) \o <<DigitChars[(n % Len(DigitChars)) + 1]>>

DigitVal(c) == CHOOSE d \in 0..(Len(DigitChars) - 1) : DigitChars[d + 1] = c

(* int(s) for a digit string s *)
RECURSIVE int(_)
int(s) ==
  IF Len(s) = 0 THEN 0
  ELSE int(SubSeq(s, 1, Len(s) - 1)) * Len(DigitChars) + DigitVal(s[Len(s)])

(* "k in d" for a dict d *)
HasKey(pairs, k) == \E i \in 1..Len(pairs) : pairs[i][1] = k

(* d[k] for a key that is present *)
GetItem(pairs, k) == pairs[CHOOSE i \in 1..Len(pairs) : pairs[i][1] = k][2]

(* d[k] = v : an existing key keeps its position, a new key goes last *)
SetItem(pairs, k, v) ==
  IF HasKey(pairs, k)
  THEN [i \in 1..Len(pairs) |-> IF pairs[i][1] = k THEN <<k, v>> ELSE pairs[i]]
  ELSE Append(pairs, <<k, v>>)

(* hash(o) succeeds: what a dict accepts as a key *)
RECURSIVE Hashable(_)
Hashable(o) ==
  CASE o.t \in {"none", "int", "str"} -> TRUE
    [] o.t = "tuple" -> \A i \in 1..Len(o.items) : Hashable(o.items[i])
    [] OTHER -> FALSE

----------------------------------------------------------------------------
(* Encoder: _py2js.  The references list is one shared object mutated in  *)
(* place; it is threaded here as st.references.  st.err is the exception  *)
(* in flight ("" for none).  st.hist and st.emits record, for the         *)
(* properties below, the list after every append and every (key, refid)   *)
(* pair of line 79-81.                                                    *)

NoErr == ""

Raise(st, kind) == [st EXCEPT !.err = kind]

(* mutant of IsReservedKey: the check of line 73 dropped *)
IsReservedKey_Never(k) == FALSE

(* line 73: k == "$" *)
IsReservedKey(k) == k = DOLLAR

(* mutant of IsDirectKey: "and not k.isdigit()" dropped *)
IsDirectKey_AnyStr(k) == k.t = "str"

(* line 75: isinstance(k, str) and not k.isdigit() *)
IsDirectKey(k) == k.t = "str" /\ ~isdigit(k.s)

(* line 78: isinstance(k, (str, int, list, tuple)) or k is None *)
KeyTypeAllowed(k) == k.t \in {"str", "int", "list", "tuple", "none"}

(* mutant of NextRefid: the length read after the append *)
NextRefid_AfterAppend(references) == Len(references) + 1

(* line 79: refid = len(references) *)
NextRefid(references) == Len(references)

(* mutant of AppendRef: references.insert(0, e) *)
AppendRef_Front(references, e) == <<e>> \o references

(* line 80: references.append(e) *)
AppendRef(references, e) == Append(references, e)

(* line 81: str(refid) as the field name *)
RefFieldName(refid) == StrV(str(refid))

(* mutant of TupleMarker: a tuple written like a list *)
TupleMarker_AsList(items) == ListV(items)

(* line 67: {"$": "t", "items": [...]} *)
TupleMarker(items) == DictV(<< <<DOLLAR, TMARK>>, <<ITEMS, ListV(items)>> >>)

RECURSIVE py2js(_, _, _), py2jsItems(_, _, _, _, _), py2jsPairs(_, _, _, _, _)

(* _py2js(o, references, version): [val, st] *)
py2js(o, st, ver) ==
  CASE o.t \in {"str", "int", "none"} -> [val |-> o, st |-> st]
    [] o.t = "tuple" ->
         LET r == py2jsItems(o.items, 1, <<>>, st, ver)
         IN  [val |-> TupleMarker(r.val), st |-> r.st]
    [] o.t = "list" ->
         LET r == py2jsItems(o.items, 1, <<>>, st, ver)
         IN  [val |-> ListV(r.val), st |-> r.st]
    [] o.t = "dict" ->
         LET r == py2jsPairs(o.pairs, 1, <<>>, st, ver)
         IN  [val |-> DictV(r.val), st |-> r.st]
    [] OTHER -> [val |-> NoneV, st |-> Raise(st, "TypeError@83")]

(* [_py2js(item, references, version) for item in o], from item i on *)
py2jsItems(items, i, acc, st, ver) ==
  IF i > Len(items) \/ st.err # NoErr THEN [val |-> acc, st |-> st]
  ELSE LET r == py2js(items[i], st, ver)
       IN  py2jsItems(items, i + 1, Append(acc, r.val), r.st, ver)

(* the loop of lines 72-81, from pair i on *)
py2jsPairs(pairs, i, result, st, ver) ==
  IF i > Len(pairs) \/ st.err # NoErr THEN [val |-> result, st |-> st]
  ELSE
    LET k == pairs[i][1]
        v == pairs[i][2]
    IN  IF IsReservedKey(k) THEN [val |-> result, st |-> Raise(st, "ValueError@74")]
        ELSE IF IsDirectKey(k) THEN
          LET rv == py2js(v, st, ver)
          IN  py2jsPairs(pairs, i + 1, SetItem(result, k, rv.val), rv.st, ver)
        ELSE IF ~KeyTypeAllowed(k) THEN
          [val |-> result, st |-> Raise(st, "AssertionError@78")]
        ELSE
          LET refid == NextRefid(st.references)
              rk == py2js(k, st, ver)
              refs1 == AppendRef(rk.st.references, rk.val)
              st1 == IF rk.st.err # NoErr THEN rk.st
                     ELSE [rk.st EXCEPT !.references = refs1,
                                        !.hist = Append(@, refs1)]
              rv == IF st1.err # NoErr THEN [val |-> NoneV, st |-> st1]
                    ELSE py2js(v, st1, ver)
              name == RefFieldName(refid)
              st2 == IF rv.st.err # NoErr THEN rv.st
                     ELSE [rv.st EXCEPT !.emits =
                             Append(@, [key |-> k, refid |-> refid, name |-> name])]
          IN  py2jsPairs(pairs, i + 1, SetItem(result, name, rv.val), st2, ver)

(* line 49: the "v" field of the envelope *)
EnvelopeV(ver) == 1

(* mutant of VersionAccepted: version == 1 *)
VersionAccepted_Only1(v) == v = IntV(1)

(* line 46 / line 57: version in (1, 2) *)
VersionAccepted(v) == v \in {IntV(1), IntV(2)}

(* python_to_json(o, version): [val, st]; val is the envelope, or an Err *)
python_to_json(o, ver) ==
  LET st0 == [references |-> <<>>, err |-> NoErr, hist |-> << <<>> >>, emits |-> <<>>]
  IN  IF ~VersionAccepted(IntV(ver))
      THEN [val |-> Err("AssertionError@46"), st |-> Raise(st0, "AssertionError@46")]
      ELSE LET r == py2js(o, st0, ver)
           IN  IF r.st.err # NoErr THEN [val |-> Err(r.st.err), st |-> r.st]
               ELSE [val |-> DictV(<< <<KEYV, IntV(EnvelopeV(ver))>>,
                                      <<KEYDATA, r.val>>,
                                      <<KEYREFS, ListV(r.st.references)>> >>),
                     st |-> r.st]

----------------------------------------------------------------------------
(* json.loads(json.dumps(o)), the text round trip of the module docstring *)
(* (lines 12-13): a tuple is written as an array, an int or None dict key *)
(* as its text, any other non-str key is refused; on reading, a repeated  *)
(* field name keeps its first position and its last value.                *)

NULLTEXT == <<"n", "u", "l", "l">>

JsonKey(k) ==
  CASE k.t = "str" -> k
    [] k.t = "int" -> StrV(str(k.n))
    [] k.t = "none" -> StrV(NULLTEXT)
    [] OTHER -> Err("TypeError")

RECURSIVE json_roundtrip(_), jsonItems(_, _, _), jsonPairs(_, _, _)

json_roundtrip(o) ==
  CASE o.t \in {"str", "int", "none"} -> o
    [] o.t \in {"list", "tuple"} -> jsonItems(o.items, 1, <<>>)
    [] o.t = "dict" -> jsonPairs(o.pairs, 1, <<>>)
    [] OTHER -> Err("TypeError")

jsonItems(items, i, acc) ==
  IF i > Len(items) THEN ListV(acc)
  ELSE LET r == json_roundtrip(items[i])
       IN  IF IsErr(r) THEN r ELSE jsonItems(items, i + 1, Append(acc, r))

jsonPairs(pairs, i, acc) ==
  IF i > Len(pairs) THEN DictV(acc)
  ELSE LET k == JsonKey(pairs[i][1])
           r == json_roundtrip(pairs[i][2])
       IN  IF IsErr(k) THEN k
           ELSE IF IsErr(r) THEN r
           ELSE jsonPairs(pairs, i + 1, SetItem(acc, k, r))

----------------------------------------------------------------------------
(* Decoder: _js2py.  references is only read. *)

(* mutant of IsTupleMarker: the discriminator not compared *)
IsTupleMarker_Any(tag) == TRUE

(* line 95: o["$"] == "t" *)
IsTupleMarker(tag) == tag = TMARK

(* mutant of RefInRange: 0 < refid < len(references) *)
RefInRange_Positive(refid, references) == 0 < refid /\ refid < Len(references)

(* line 104: 0 <= refid < len(references) *)
RefInRange(refid, references) == 0 <= refid /\ refid < Len(references)

(* mutant of RefLookup: references[0] *)
RefLookup_First(references, refid) == references[1]

(* line 105: references[refid] *)
RefLookup(references, refid) == references[refid + 1]

(* "for item in data" (line 97): what iterating data yields, or an Err *)
Iterate(data) ==
  CASE data.t \in {"list", "tuple"} -> ListV(data.items)
    [] data.t = "str" -> ListV([i \in 1..Len(data.s) |-> StrV(<<data.s[i]>>)])
    [] data.t = "dict" -> ListV([i \in 1..Len(data.pairs) |-> data.pairs[i][1]])
    [] OTHER -> Err("TypeError@97")

RECURSIVE js2py(_, _, _), js2pyItems(_, _, _, _, _), js2pyFields(_, _, _, _, _)

(* _js2py(o, references, version): the value, or an Err *)
js2py(o, references, ver) ==
  CASE o.t = "tuple" -> Err("AssertionError@87")
    [] o.t \in {"str", "int", "none"} -> o
    [] o.t = "list" -> js2pyItems(o.items, 1, <<>>, references, ver)
    [] o.t = "dict" ->
         IF HasKey(o.pairs, DOLLAR) THEN
           IF IsTupleMarker(GetItem(o.pairs, DOLLAR)) THEN
             IF ~HasKey(o.pairs, ITEMS) THEN Err("KeyError@96")
             ELSE LET data == Iterate(GetItem(o.pairs, ITEMS))
                      r == js2pyItems(data.items, 1, <<>>, references, ver)
                  IN  IF IsErr(data) THEN data
                      ELSE IF IsErr(r) THEN r
                      ELSE TupleV(r.items)
           ELSE Err("TypeError@98")
         ELSE js2pyFields(o.pairs, 1, <<>>, references, ver)
    [] OTHER -> Err("TypeError@110")

(* _js2py of each item in turn, from item i on: a ListV, or the first Err *)
js2pyItems(items, i, acc, references, ver) ==
  IF i > Len(items) THEN ListV(acc)
  ELSE LET r == js2py(items[i], references, ver)
       IN  IF IsErr(r) THEN r
           ELSE js2pyItems(items, i + 1, Append(acc, r), references, ver)

(* the loop of lines 100-108, from field i on: a DictV, or the first Err. *)
(* In "result[key] = value" Python evaluates value before key.           *)
js2pyFields(pairs, i, result, references, ver) ==
  IF i > Len(pairs) THEN DictV(result)
  ELSE
    LET refid == pairs[i][1]
        v == pairs[i][2]
    IN  IF refid.t # "str" THEN Err("AssertionError@101")
        ELSE IF isdigit(refid.s) THEN
          IF ~RefInRange(int(refid.s), references) THEN Err("AssertionError@104")
          ELSE LET k == RefLookup(references, int(refid.s))
                   rv == js2py(v, references, ver)
                   rk == js2py(k, references, ver)
               IN  IF IsErr(rv) THEN rv
                   ELSE IF IsErr(rk) THEN rk
                   ELSE IF ~Hashable(rk) THEN Err("TypeError@106")
                   ELSE js2pyFields(pairs, i + 1, SetItem(result, rk, rv),
                                    references, ver)
        ELSE LET rv == js2py(v, references, ver)
             IN  IF IsErr(rv) THEN rv
                 ELSE js2pyFields(pairs, i + 1, SetItem(result, refid, rv),
                                  references, ver)

(* json_to_python(o): the decoded value, or an Err.  o is a dict and      *)
(* o["references"] a list in every input drawn below.                     *)
json_to_python(o) ==
  IF ~HasKey(o.pairs, KEYV) THEN Err("KeyError@56")
  ELSE IF ~VersionAccepted(GetItem(o.pairs, KEYV)) THEN Err("AssertionError@57")
  ELSE IF ~HasKey(o.pairs, KEYREFS) THEN Err("KeyError@58")
  ELSE IF ~HasKey(o.pairs, KEYDATA) THEN Err("KeyError@59")
  ELSE js2py(GetItem(o.pairs, KEYDATA), GetItem(o.pairs, KEYREFS).items,
             GetItem(o.pairs, KEYV))

----------------------------------------------------------------------------
(* Inputs of python_to_json *)

MaxInt == 1
MaxItems == 2

SeqsUpTo(S, n) == UNION {[1..m -> S] : m \in 0..n}

DistinctKeys(pairs) ==
  \A i, j \in 1..Len(pairs) : i # j => pairs[i][1] # pairs[j][1]

Ints == {IntV(n) : n \in 0..MaxInt}

Strs == {StrV(<<>>), StrV(<<"1">>), StrV(<<"1", "0">>), StrV(<<"a">>),
         StrV(<<"1", "a">>), DOLLAR}

Scalars == {NoneV} \cup Ints \cup Strs

(* tuples are the only hashable containers *)
TupleKeys ==
  {TupleV(s) : s \in SeqsUpTo({IntV(1), StrV(<<"1">>)}, 2)}
    \cup {TupleV(<<TupleV(<<NoneV>>)>>)}

Keys == Scalars \cup TupleKeys

Leaves == {IntV(1), StrV(<<"a">>)}

(* one level: lists and tuples of scalars, dicts over every key *)
FlatValue(v) ==
  \/ v \in Scalars
  \/ \E s \in SeqsUpTo(Scalars, MaxItems) : v = ListV(s) \/ v = TupleV(s)
  \/ \E p \in SeqsUpTo(Keys \X Leaves, MaxItems) : DistinctKeys(p) /\ v = DictV(p)

(* nested: dicts in dicts, in lists and in tuples, over fewer keys *)
InnerKeys == {IntV(1), StrV(<<"1">>), StrV(<<"a">>), DOLLAR, TupleV(<<IntV(1)>>)}
OuterKeys == {IntV(1), StrV(<<"1">>), StrV(<<"a">>), TupleV(<<IntV(1)>>)}

InnerDicts == {DictV(<<>>)} \cup {DictV(<< <<k, IntV(1)>> >>) : k \in InnerKeys}

Inner ==
  Leaves \cup InnerDicts
    \cup {ListV(<<d>>) : d \in InnerDicts}
    \cup {TupleV(<<d>>) : d \in InnerDicts}
    \cup {DictV(<< <<k, d>> >>) : k \in {IntV(1), StrV(<<"a">>)}, d \in InnerDicts}

NestedValue(v) ==
  \/ \E k \in OuterKeys, v1 \in Inner : v = DictV(<< <<k, v1>> >>)
  \/ \E k1 \in OuterKeys, k2 \in OuterKeys, v1 \in Inner, v2 \in Inner :
       k1 # k2 /\ v = DictV(<< <<k1, v1>>, <<k2, v2>> >>)
  \/ \E v1 \in Inner, v2 \in Inner : v = ListV(<<v1, v2>>) \/ v = TupleV(<<v1, v2>>)

Versions == {1, 2, 3}

----------------------------------------------------------------------------
(* The pipeline of the module docstring (lines 10-17) *)

Init ==
  /\ FlatValue(x) \/ NestedValue(x)
  /\ version \in Versions
  /\ pc = "start"
  /\ env = NoneV
  /\ wire = NoneV
  /\ out = NoneV
  /\ hist = <<>>
  /\ emits = <<>>

(* encoded = python_to_json(original_data, version) *)
PythonToJson ==
  /\ pc = "start"
  /\ LET r == python_to_json(x, version)
     IN  /\ env' = r.val
         /\ hist' = r.st.hist
         /\ emits' = r.st.emits
         /\ pc' = IF IsErr(r.val) THEN "raised" ELSE "encoded"
  /\ UNCHANGED <<x, version, wire, out>>

(* decoded = json.loads(json.dumps(encoded)) *)
JsonDumpsLoads ==
  /\ pc = "encoded"
  /\ wire' = json_roundtrip(env)
  /\ pc' = IF IsErr(wire') THEN "raised" ELSE "wire"
  /\ UNCHANGED <<x, version, env, out, hist, emits>>

(* rehydrated_data = json_to_python(decoded) *)
JsonToPython ==
  /\ pc = "wire"
  /\ out' = json_to_python(wire)
  /\ pc' = IF IsErr(out') THEN "raised" ELSE "decoded"
  /\ UNCHANGED <<x, version, env, wire, hist, emits>>

Next == PythonToJson \/ JsonDumpsLoads \/ JsonToPython

Spec == Init /\ [][Next]_vars

----------------------------------------------------------------------------
(* Inputs of json_to_python that python_to_json need not have produced:   *)
(* JSON objects (every field name a str, no tuple) with "$" objects of    *)
(* every shape, field names in and out of the table's range, and every    *)
(* "v".  No reference entry holds a digit field name, so decoding a key   *)
(* never re-enters the table.                                             *)

MaxRefs == 2

Obj1(k, v) == DictV(<< <<k, v>> >>)
Obj2(k1, v1, k2, v2) == DictV(<< <<k1, v1>>, <<k2, v2>> >>)
Obj3(k1, v1, k2, v2, k3, v3) == DictV(<< <<k1, v1>>, <<k2, v2>>, <<k3, v3>> >>)

EXTRA == StrV(<<"x">>)
BadTag == Obj1(DOLLAR, StrV(<<"a">>))

ItemsShapes ==
  {ListV(<<>>), ListV(<<IntV(1)>>), ListV(<<IntV(0), IntV(1)>>), ListV(<<BadTag>>),
   StrV(<<"1", "a">>), IntV(1), NoneV, Obj1(StrV(<<"a">>), IntV(1))}

MarkerShapes ==
  {BadTag, Obj2(DOLLAR, StrV(<<"a">>), ITEMS, ListV(<<>>)),
   Obj2(DOLLAR, IntV(1), ITEMS, ListV(<<>>)), Obj1(DOLLAR, TMARK),
   Obj2(DOLLAR, TMARK, EXTRA, IntV(1))}
    \cup {Obj2(DOLLAR, TMARK, ITEMS, i) : i \in ItemsShapes}
    \cup {Obj3(DOLLAR, TMARK, ITEMS, i, EXTRA, e) : i \in ItemsShapes, e \in {IntV(1), BadTag}}
    \cup {Obj2(ITEMS, i, DOLLAR, TMARK) : i \in {ListV(<<IntV(1)>>)}}

FieldNames == {StrV(<<"0">>), StrV(<<"1">>), StrV(<<"0", "1">>), StrV(<<"5">>),
               StrV(<<"1", "0">>), StrV(<<"a">>), StrV(<<>>)}

PlainShapes ==
  {DictV(<<>>)}
    \cup {Obj1(n, v) : n \in FieldNames,
                       v \in {IntV(1), TupleMarker(<<IntV(1)>>), Obj1(StrV(<<"5">>), IntV(1))}}
    \cup {Obj2(n1, IntV(0), n2, IntV(1)) :
            <<n1, n2>> \in {nn \in FieldNames \X FieldNames : nn[1] # nn[2]}}

DataShapes ==
  {NoneV, IntV(1), StrV(<<"a">>), TupleV(<<>>)}
    \cup MarkerShapes \cup PlainShapes
    \cup {ListV(<<m>>) : m \in MarkerShapes}
    \cup {Obj1(n, m) : n \in {StrV(<<"a">>), StrV(<<"0">>)}, m \in MarkerShapes}

RefEntries ==
  {IntV(1), StrV(<<"1">>), TupleMarker(<<IntV(1)>>), ListV(<<IntV(1)>>), BadTag,
   Obj3(DOLLAR, TMARK, ITEMS, ListV(<<IntV(1)>>), EXTRA, IntV(1)),
   Obj2(DOLLAR, TMARK, ITEMS, StrV(<<"1", "a">>))}

Envelope(v, data, refs) == Obj3(KEYV, v, KEYDATA, data, KEYREFS, ListV(refs))

(* every data under every table for the accepted "v"; every data under   *)
(* the other "v"; envelopes with a field missing                         *)
IsEnvelope(e) ==
  \/ \E v \in {IntV(1), IntV(2)}, d \in DataShapes, r \in SeqsUpTo(RefEntries, MaxRefs) :
       e = Envelope(v, d, r)
  \/ \E v \in {IntV(0), IntV(3), StrV(<<"1">>), NoneV}, d \in DataShapes,
        r \in SeqsUpTo(RefEntries, 1) : e = Envelope(v, d, r)
  \/ \E d \in DataShapes : e = Obj2(KEYDATA, d, KEYREFS, ListV(<<>>))
  \/ \E v \in {IntV(1), IntV(3)}, d \in DataShapes : e = Obj2(KEYV, v, KEYDATA, d)
  \/ \E v \in {IntV(1), IntV(3)} : e = Obj2(KEYV, v, KEYREFS, ListV(<<>>))

(* json_to_python called on an arbitrary envelope *)
InitDecode ==
  /\ IsEnvelope(wire)
  /\ pc = "wire"
  /\ x = NoneV
  /\ version = 0
  /\ env = NoneV
  /\ out = NoneV
  /\ hist = <<>>
  /\ emits = <<>>

NextDecode == JsonToPython

SpecDecode == InitDecode /\ [][NextDecode]_vars

----------------------------------------------------------------------------
(* Vocabulary of the properties, defined on the values alone *)

EnvData == GetItem(env.pairs, KEYDATA)
EnvRefs == GetItem(env.pairs, KEYREFS).items
Encoded == pc \in {"encoded", "wire", "decoded"}

(* a String not composed entirely of decimal digits *)
PlainStr(k) == k.t = "str" /\ (k.s = <<>> \/ \E i \in 1..Len(k.s) : k.s[i] \notin Digits)
ViaTable(k) == ~PlainStr(k)
DigitName(n) == n.t = "str" /\ n.s # <<>> /\ \A i \in 1..Len(n.s) : n.s[i] \in Digits

(* some Mapping of o, at any depth, has the key "$" *)
RECURSIVE HasReservedKey(_)
HasReservedKey(o) ==
  CASE o.t \in {"list", "tuple"} -> \E i \in 1..Len(o.items) : HasReservedKey(o.items[i])
    [] o.t = "dict" -> \E i \in 1..Len(o.pairs) :
                          o.pairs[i][1] = StrV(<<"$">>) \/ HasReservedKey(o.pairs[i][2])
    [] OTHER -> FALSE

(* the mapping keys of a value in depth-first, left-to-right order: a key *)
(* comes before the keys inside its value                                 *)
RECURSIVE KeysDFS(_), KeysOfItems(_, _), KeysOfPairs(_, _)
KeysDFS(o) ==
  CASE o.t \in {"list", "tuple"} -> KeysOfItems(o.items, 1)
    [] o.t = "dict" -> KeysOfPairs(o.pairs, 1)
    [] OTHER -> <<>>
KeysOfItems(items, i) ==
  IF i > Len(items) THEN <<>> ELSE KeysDFS(items[i]) \o KeysOfItems(items, i + 1)
KeysOfPairs(pairs, i) ==
  IF i > Len(pairs) THEN <<>>
  ELSE <<pairs[i][1]>> \o KeysDFS(pairs[i][2]) \o KeysOfPairs(pairs, i + 1)

(* the field names of the plain objects of an encoded value, in the same  *)
(* order; an object with a "$" field is a tuple marker and has none       *)
RECURSIVE FieldsDFS(_), FieldsOfItems(_, _), FieldsOfPairs(_, _)
FieldsDFS(j) ==
  CASE j.t = "list" -> FieldsOfItems(j.items, 1)
    [] j.t = "dict" ->
         IF HasKey(j.pairs, DOLLAR)
         THEN IF HasKey(j.pairs, ITEMS) THEN FieldsDFS(GetItem(j.pairs, ITEMS)) ELSE <<>>
         ELSE FieldsOfPairs(j.pairs, 1)
    [] OTHER -> <<>>
FieldsOfItems(items, i) ==
  IF i > Len(items) THEN <<>> ELSE FieldsDFS(items[i]) \o FieldsOfItems(items, i + 1)
FieldsOfPairs(pairs, i) ==
  IF i > Len(pairs) THEN <<>>
  ELSE <<pairs[i][1]>> \o FieldsDFS(pairs[i][2]) \o FieldsOfPairs(pairs, i + 1)

(* the encoding of a mapping key, which holds no Mapping: scalars as     *)
(* they are, a tuple as the marker object over its encoded items          *)
RECURSIVE EncKey(_)
EncKey(k) ==
  IF k.t = "tuple"
  THEN DictV(<< <<StrV(<<"$">>), StrV(<<"t">>)>>,
                <<StrV(<<"i", "t", "e", "m", "s">>),
                  ListV([i \in 1..Len(k.items) |-> EncKey(k.items[i])])>> >>)
  ELSE k

IsPrefix(s, t) == Len(s) <= Len(t) /\ \A i \in 1..Len(s) : s[i] = t[i]

----------------------------------------------------------------------------
(* C1: round trip.  For every value x without the key "$" and for version *)
(* 1 and 2, no stage of encode / JSON text round trip / decode raises, and *)
(* the decoded value equals x: same Sequence/Tuple variant at every node,  *)
(* same type of every mapping key, same order of entries.                  *)
C1_RoundTrip ==
  (version \in {1, 2} /\ ~HasReservedKey(x)) =>
    /\ pc # "raised"
    /\ pc = "decoded" => out = x

(* decoded: an int key 1 and a str key "1" in one mapping, a tuple value *)
C1_Witness ==
  /\ pc = "decoded"
  /\ out = x
  /\ x = DictV(<< <<IntV(1), TupleV(<<DictV(<< <<StrV(<<"1">>), IntV(1)>> >>)>>)>>,
                  <<StrV(<<"1">>), IntV(1)>> >>)

(* C2: the envelope's "v" field equals the version argument (1 or 2). *)
C2_VersionField ==
  (pc = "encoded" /\ version \in {1, 2}) => GetItem(env.pairs, KEYV) = IntV(version)

(* C4: reserved-key rejection.  python_to_json raises the reserved-key    *)
(* error, and returns no envelope, exactly when some Mapping of x, at the  *)
(* root or nested at any depth, has the key "$".                           *)
C4_ReservedKey ==
  (pc # "start" /\ version \in {1, 2}) =>
    /\ HasReservedKey(x) <=> env = Err("ValueError@74")
    /\ HasReservedKey(x) => pc = "raised"

(* raised for a "$" nested below the root, after a reference was appended *)
C4_Witness ==
  /\ pc = "raised"
  /\ env = Err("ValueError@74")
  /\ x.t = "dict"
  /\ ~HasKey(x.pairs, DOLLAR)
  /\ Len(hist) > 1

C6_ReferenceOrder ==
  Encoded =>
    LET ks == KeysDFS(x)
        fs == FieldsDFS(EnvData)
        nd == SelectSeq(ks, ViaTable)
        dn == SelectSeq(fs, DigitName)
    IN  /\ Len(EnvRefs) = Len(nd)
        /\ \A i \in 1..Len(nd) : EnvRefs[i] = EncKey(nd[i])
        /\ Len(dn) = Len(nd)
        /\ \A i \in 1..Len(dn) : dn[i] = StrV(str(i - 1))
        /\ Len(fs) = Len(ks)
        /\ \A i \in 1..Len(ks) : ViaTable(ks[i]) <=> DigitName(fs[i])

(* equal keys in two mappings get two entries; the inner key's entry      *)
(* comes before that of the outer mapping's second key                    *)
C6_Witness ==
  /\ pc = "encoded"
  /\ x = DictV(<< <<IntV(1), DictV(<< <<IntV(1), IntV(1)>> >>)>>,
                  <<TupleV(<<IntV(1)>>), IntV(1)>> >>)
  /\ EnvRefs = <<IntV(1), IntV(1), EncKey(TupleV(<<IntV(1)>>))>>

(* C7: tuple/list distinction.  A Sequence encodes to a bare array of its *)
(* encoded items, a Tuple of the same items to {"$": "t", "items": that    *)
(* array}; decoding gives back the variant, with the items in order.       *)
C7_TupleList ==
  (Encoded /\ x.t \in {"list", "tuple"}) =>
    LET arr == GetItem(python_to_json(ListV(x.items), version).val.pairs, KEYDATA)
    IN  /\ arr.t = "list"
        /\ Len(arr.items) = Len(x.items)
        /\ \A i \in 1..Len(x.items) :
             x.items[i].t \in {"none", "int", "str"} => arr.items[i] = x.items[i]
        /\ x.t = "list" => EnvData = arr
        /\ x.t = "tuple" =>
             EnvData = DictV(<< <<StrV(<<"$">>), StrV(<<"t">>)>>,
                                <<StrV(<<"i", "t", "e", "m", "s">>), arr>> >>)
        /\ pc = "decoded" => (out.t = x.t /\ out.items = x.items)

C7_Witness ==
  /\ pc = "decoded"
  /\ x = TupleV(<<IntV(0), IntV(1)>>)
  /\ EnvData = DictV(<< <<DOLLAR, TMARK>>, <<ITEMS, ListV(<<IntV(0), IntV(1)>>)>> >>)
  /\ out = x

(* C10: append-only, correctly indexed table.  Each table of an encode    *)
(* call is the one before it with one entry appended, so each is a prefix  *)
(* of the final one; and for every field name str(i) given to a non-direct *)
(* key k, entry i of the final table is the encoding of k.                 *)
C10_AppendOnly ==
  pc # "start" =>
    /\ \A i \in 1..(Len(hist) - 1) :
         Len(hist[i + 1]) = Len(hist[i]) + 1 /\ IsPrefix(hist[i], hist[i + 1])
    /\ pc = "encoded" =>
         /\ hist[Len(hist)] = EnvRefs
         /\ \A i \in 1..Len(hist) : IsPrefix(hist[i], EnvRefs)
         /\ \A i \in 1..Len(emits) :
              /\ emits[i].name = StrV(str(emits[i].refid))
              /\ emits[i].refid < Len(EnvRefs)
              /\ EnvRefs[emits[i].refid + 1] = EncKey(emits[i].key)
         /\ {emits[i].name : i \in 1..Len(emits)}
              = {n \in {FieldsDFS(EnvData)[i] : i \in 1..Len(FieldsDFS(EnvData))} :
                   DigitName(n)}

(* three tables after the empty one; the outer key's index was taken      *)
(* before the entries of its value were appended                          *)
C10_Witness ==
  /\ pc = "encoded"
  /\ Len(hist) = 4
  /\ Len(emits) = 3
  /\ emits[1].refid = 1
  /\ emits[2].refid = 0

----------------------------------------------------------------------------
(* Properties of json_to_python on arbitrary envelopes *)

Returned == pc \in {"decoded", "raised"} /\ wire.t = "dict"
Complete ==
  HasKey(wire.pairs, KEYV) /\ HasKey(wire.pairs, KEYDATA) /\ HasKey(wire.pairs, KEYREFS)
WireV == GetItem(wire.pairs, KEYV)
WireData == GetItem(wire.pairs, KEYDATA)
WireRefs == GetItem(wire.pairs, KEYREFS).items
Supported == WireV \in {IntV(1), IntV(2)}

InTable(n, refs) == 0 <= int(n.s) /\ int(n.s) < Len(refs)

(* the exact tuple marker of the data model: two fields, "$" is "t" and  *)
(* "items" is an array                                                    *)
ExactMarker(j) ==
  /\ Len(j.pairs) = 2
  /\ HasKey(j.pairs, DOLLAR) /\ GetItem(j.pairs, DOLLAR) = StrV(<<"t">>)
  /\ HasKey(j.pairs, ITEMS) /\ GetItem(j.pairs, ITEMS).t = "list"

(* j, or a table entry that a field name of j resolves to, contains an   *)
(* object with a "$" field that is not the exact marker                   *)
RECURSIVE MalformedMarkerIn(_, _)
MalformedMarkerIn(j, refs) ==
  CASE j.t = "list" -> \E i \in 1..Len(j.items) : MalformedMarkerIn(j.items[i], refs)
    [] j.t = "dict" ->
         IF HasKey(j.pairs, DOLLAR)
         THEN \/ ~ExactMarker(j)
              \/ \E i \in 1..Len(GetItem(j.pairs, ITEMS).items) :
                   MalformedMarkerIn(GetItem(j.pairs, ITEMS).items[i], refs)
         ELSE \E i \in 1..Len(j.pairs) :
                \/ MalformedMarkerIn(j.pairs[i][2], refs)
                \/ /\ DigitName(j.pairs[i][1])
                   /\ InTable(j.pairs[i][1], refs)
                   /\ MalformedMarkerIn(refs[int(j.pairs[i][1].s) + 1], refs)
    [] OTHER -> FALSE

(* at a place the decoder visits (array elements, plain-object values and *)
(* resolved keys, the elements of a marker's "items" array) there is a "$" *)
(* object whose "$" is not "t", or without "items", or whose "items" is a  *)
(* number or null                                                          *)
RECURSIVE BadMarkerVisited(_, _)
BadMarkerVisited(j, refs) ==
  CASE j.t = "list" -> \E i \in 1..Len(j.items) : BadMarkerVisited(j.items[i], refs)
    [] j.t = "dict" ->
         IF HasKey(j.pairs, DOLLAR)
         THEN \/ GetItem(j.pairs, DOLLAR) # StrV(<<"t">>)
              \/ ~HasKey(j.pairs, ITEMS)
              \/ GetItem(j.pairs, ITEMS).t \in {"int", "none"}
              \/ /\ GetItem(j.pairs, ITEMS).t = "list"
                 /\ \E i \in 1..Len(GetItem(j.pairs, ITEMS).items) :
                      BadMarkerVisited(GetItem(j.pairs, ITEMS).items[i], refs)
         ELSE \E i \in 1..Len(j.pairs) :
                \/ BadMarkerVisited(j.pairs[i][2], refs)
                \/ /\ DigitName(j.pairs[i][1])
                   /\ InTable(j.pairs[i][1], refs)
                   /\ BadMarkerVisited(refs[int(j.pairs[i][1].s) + 1], refs)
    [] OTHER -> FALSE

(* a plain object the decoder visits has a digit-only field name whose    *)
(* value is not an index of the table                                     *)
RECURSIVE OutOfRangeVisited(_, _)
OutOfRangeVisited(j, refs) ==
  CASE j.t = "list" -> \E i \in 1..Len(j.items) : OutOfRangeVisited(j.items[i], refs)
    [] j.t = "dict" ->
         IF HasKey(j.pairs, DOLLAR)
         THEN /\ GetItem(j.pairs, DOLLAR) = StrV(<<"t">>)
              /\ HasKey(j.pairs, ITEMS)
              /\ GetItem(j.pairs, ITEMS).t = "list"
              /\ \E i \in 1..Len(GetItem(j.pairs, ITEMS).items) :
                   OutOfRangeVisited(GetItem(j.pairs, ITEMS).items[i], refs)
         ELSE \E i \in 1..Len(j.pairs) :
                \/ DigitName(j.pairs[i][1]) /\ ~InTable(j.pairs[i][1], refs)
                \/ OutOfRangeVisited(j.pairs[i][2], refs)
                \/ /\ DigitName(j.pairs[i][1])
                   /\ InTable(j.pairs[i][1], refs)
                   /\ OutOfRangeVisited(refs[int(j.pairs[i][1].s) + 1], refs)
    [] OTHER -> FALSE

C8_RefRange ==
  (Returned /\ Complete /\ Supported) =>
    /\ OutOfRangeVisited(WireData, WireRefs) => IsErr(out)
    /\ out = Err("AssertionError@104") => OutOfRangeVisited(WireData, WireRefs)

(* {"5": 1} with an empty table *)
C8_Witness ==
  /\ pc = "raised"
  /\ WireData = Obj1(StrV(<<"5">>), IntV(1))
  /\ WireRefs = <<>>
  /\ out = Err("AssertionError@104")

(* C9: unsupported-version rejection.  An envelope whose "v" is not 1 or  *)
(* 2 fails with the version error whatever its data; v = 1 and v = 2 are   *)
(* accepted and decode the same data and references to the same result.    *)
C9_Version ==
  (Returned /\ HasKey(wire.pairs, KEYV)) =>
    /\ ~Supported => out = Err("AssertionError@57")
    /\ Supported =>
         /\ out # Err("AssertionError@57")
         /\ \A v \in {IntV(1), IntV(2)} :
              out = json_to_python(DictV(SetItem(wire.pairs, KEYV, v)))

(* "v": 3 over data that would not decode *)
C9_Witness ==
  /\ pc = "raised"
  /\ Complete
  /\ WireV = IntV(3)
  /\ WireData = BadTag
  /\ out = Err("AssertionError@57")

====
